---- MODULE Spec2Model ----
(***************************************************************************)
(* Model of eslint-plugin-use-css-token (src/src/index.ts).                *)
(*                                                                         *)
(* Strings are sequences of one-character strings, indexed from 0 by the   *)
(* string helpers below exactly as the JavaScript methods index them.      *)
(* The character "$" is not in the alphabet, so the substitution patterns  *)
(* of String.prototype.replace never arise in a replacement text.          *)
(***************************************************************************)
EXTENDS Integers, Sequences, FiniteSets, TLC

VARIABLES
    tokenColors,  \* the module-level registry (line 4), in insertion order
    walker,       \* which declarations the style-sheet processor visits again
    pc,           \* "idle": no create() running; "walk": inside process().content
    created,      \* number of create() calls that have returned
    src,          \* the declarations of the style sheet as read from cssFile
    decls,        \* the declarations of the parsed style sheet (mutable nodes)
    isClean,      \* per declaration: the processor's clean flag
    rootClean,    \* the clean flag of the root of the parsed style sheet
    idx,          \* the declaration the current pass visits next
    rewrites,     \* assignments to decl.value that changed it, in this create()
    value,        \* Declaration's local `value` at its latest call
    hexOrRgba,    \* Declaration's local `hexOrRgba` at its latest call
    snap,         \* the registry as it was when the first create() returned
    astNode,      \* the node of the latest Property visit
    lookup,       \* what getToken returned at the latest Property visit
    reports       \* the diagnostics reported by the latest Property visit

vars == <<tokenColors, walker, pc, created, src, decls, isClean, rootClean, idx,
          rewrites, value, hexOrRgba, snap, astNode, lookup, reports>>

\* ------------------------------------------------------------------ bounds

MaxDecls == 2      \* declarations in a style sheet
MaxChunks == 3     \* chunks in a generated declaration value
MaxCreates == 2    \* rule instances set up in one process
MaxRewrites == 7   \* cap on value rewrites within one create()

\* ------------------------------------------------------------- JS strings

Undefined == <<"undefined">>
None == <<"none">>
NoNode == [key |-> "none", value |-> Undefined]

\* The operators below bind their arguments through one-element sets, so
\* that an argument is evaluated once however often the body uses it.
The(S) == CHOOSE x \in S : TRUE

Min(S) == The({x \in S : \A y \in S : x <= y})

MatchAt(s, pat, i) == SubSeq(s, i + 1, i + Len(pat)) = pat

\* String.prototype.indexOf(pat, from): 0-based, -1 when absent; a negative
\* from counts as 0.
IndexOf(s, pat, from) ==
    The({ IF \E i \in f..(Len(a) - Len(b)) : MatchAt(a, b, i)
          THEN Min({i \in f..(Len(a) - Len(b)) : MatchAt(a, b, i)})
          ELSE -1 : a \in {s}, b \in {pat}, f \in {IF from < 0 THEN 0 ELSE from} })

\* String.prototype.includes(pat)
Includes(s, pat) == IndexOf(s, pat, 0) # -1

\* String.prototype.startsWith(pat)
StartsWith(s, pat) == Len(s) >= Len(pat) /\ SubSeq(s, 1, Len(pat)) = pat

\* String.prototype.slice(start, end): negative indexes count from the end,
\* both are clamped to the string, and end <= start gives "".
Clamp(i, len) ==
    IF i < 0 THEN (IF len + i < 0 THEN 0 ELSE len + i)
    ELSE IF i > len THEN len ELSE i

Slice(s, start, end) ==
    The({ IF to <= from THEN <<>> ELSE SubSeq(a, from + 1, to) :
          a \in {s}, from \in {Clamp(start, Len(s))}, to \in {Clamp(end, Len(s))} })

\* String.prototype.replace(pat, rep) with a string pattern: the first
\* occurrence only; the string itself when pat does not occur.
Replace(s, pat, rep) ==
    The({ The({ IF at = -1 THEN a
                ELSE SubSeq(a, 1, at) \o rep \o SubSeq(a, at + Len(b) + 1, Len(a)) :
                at \in {IndexOf(a, b, 0)} }) :
          a \in {s}, b \in {pat} })

Hash == <<"#">>
Rgb == <<"r", "g", "b">>
RgbParen == <<"r", "g", "b", "(">>
RgbaParen == <<"r", "g", "b", "a", "(">>
CloseParen == <<")">>
DashDash == <<"-", "-">>

\* ------------------------------------------------------- colorMod (36-76)

\* lines 41-44 (and again 54-58)
IsColor(v) == Includes(v, Hash) \/ Includes(v, RgbParen) \/ Includes(v, RgbaParen)

NodeRgbParen(v) ==
    IF Includes(v, Hash) THEN IndexOf(v, Hash, 0) ELSE IndexOf(v, RgbParen, 0)

\* lines 59-61: const node
Node(v) == IF Includes(v, Hash) THEN IndexOf(v, Hash, 0) ELSE IndexOf(v, Rgb, 0)

\* line 62: const context
Context(v) == IF Includes(v, Hash) THEN Hash ELSE Rgb

\* line 63: const end
End(v) == IndexOf(v, CloseParen, Node(v)) + 1

\* line 67: const hexOrRgba
HexOrRgba(v) == Slice(v, Node(v), End(v))

\* line 68: const mod
Mod(v) == <<"c", "o", "l", "o", "r", "(">> \o HexOrRgba(v) \o <<")">>

RewrittenNoContext(v) == Replace(v, HexOrRgba(v), Mod(v))

\* line 70: the value assigned to decl.value
Rewritten(v) == Replace(v, Context(v) \o HexOrRgba(v), Mod(v))

\* lines 54-71: decl.value when Declaration returns
NewValue(v) == IF IsColor(v) THEN Rewritten(v) ELSE v

\* line 47: tokenColors[decl.prop] = decl.value; a new key goes last, an
\* existing key keeps its place
SetToken(tc, k, v) ==
    IF \E i \in DOMAIN tc : tc[i].key = k
    THEN [i \in DOMAIN tc |-> IF tc[i].key = k THEN [key |-> k, val |-> v] ELSE tc[i]]
    ELSE Append(tc, [key |-> k, val |-> v])

\* lines 46-48
Registered(tc, decl) ==
    IF StartsWith(decl.prop, DashDash) /\ IsColor(decl.value)
    THEN SetToken(tc, decl.prop, decl.value)
    ELSE tc

\* ----------------------------------------------------------------- inputs

Chunks == {Hash, Rgb, RgbParen, RgbaParen, CloseParen, <<"a">>}

RECURSIVE Flatten(_)
Flatten(cs) == IF cs = <<>> THEN <<>> ELSE Head(cs) \o Flatten(Tail(cs))

Values == {Flatten(cs) : cs \in UNION {[1..n -> Chunks] : n \in 0..MaxChunks}}

Props == {<<"-", "-", "a">>, <<"c", "o", "l", "o", "r">>}

\* a few declarations, combined into style sheets of several declarations
FewDecls ==
    { [prop |-> <<"-", "-", "a">>, value |-> <<"#", "a">>],
      [prop |-> <<"-", "-", "a">>, value |-> <<"#", "a", "#", "a">>],
      [prop |-> <<"-", "-", "a">>, value |-> <<"a">>],
      [prop |-> <<"-", "-", "b">>, value |-> <<"r", "g", "b", "(", "a", ")">>],
      [prop |-> <<"-", "-", "b">>, value |-> <<"#", "a">>],
      [prop |-> <<"c", "o", "l", "o", "r">>, value |-> <<"#", "a">>] }

FewSheets == UNION {[1..n -> FewDecls] : n \in 0..MaxDecls}

\* values longer than the generated ones: the rewrite finds its pattern in
\* the first two; the others are written out in the documentation
LongValues ==
    { <<"#", ")", "#", "#", ")">>,
      <<"r", "g", "b", "(", ")", "r", "g", "b", "r", "g", "b", "(", ")">>,
      <<"#", "1", "1", "2", "2", "3", "3">>,
      <<"u", "r", "l", "(", "#", "f", "r", "a", "g", ")">>,
      <<"1", "p", "x", " ", "s", "o", "l", "i", "d", " ",
        "r", "g", "b", "a", "(", "0", ",", "0", ",", "0", ",", "0", ".", "5", ")">> }

OneDeclSheets ==
    {<<[prop |-> p, value |-> v]>> : p \in Props, v \in Values \cup LongValues}

\* ------------------------------------------------------------------- state

\* The style-sheet processor is a library outside this repository. It calls
\* the Declaration visitor on every declaration, and again on declarations
\* whose value the visitor changed, until a pass changes nothing. walker
\* covers both ways of doing that: "all" repeats the pass over every
\* declaration (the synchronous walk that .content runs), "dirty" calls the
\* visitor again only on the declarations that changed.
Init ==
    /\ tokenColors = <<>>
    /\ walker \in {"all", "dirty"}
    /\ pc = "idle"
    /\ created = 0
    /\ src = <<>>
    /\ decls = <<>>
    /\ isClean = <<>>
    /\ rootClean = TRUE
    /\ idx = 1
    /\ rewrites = 0
    /\ value = None
    /\ hexOrRgba = None
    /\ snap = <<>>
    /\ astNode = NoNode
    /\ lookup = None
    /\ reports = <<>>

\* lines 111-116: create() reads cssFile, parses it and starts the processor
\* on the parsed declarations; the root starts out not clean, so a first
\* pass over the declarations begins. The new instance has visited no
\* Property yet.
Start(sheet) ==
    /\ pc' = "walk"
    /\ src' = sheet
    /\ decls' = sheet
    /\ isClean' = [i \in DOMAIN sheet |-> FALSE]
    /\ rootClean' = TRUE
    /\ idx' = 1
    /\ rewrites' = 0
    /\ value' = None
    /\ hexOrRgba' = None
    /\ astNode' = NoNode
    /\ lookup' = None
    /\ reports' = <<>>
    /\ UNCHANGED <<tokenColors, walker, created, snap>>

Create ==
    /\ pc = "idle"
    /\ created < MaxCreates
    /\ \E sheet \in FewSheets : Start(sheet)

\* the same, for a first rule instance whose sheet has one declaration
CreateOne ==
    /\ pc = "idle"
    /\ created = 0
    /\ \E sheet \in OneDeclSheets : Start(sheet)

\* lines 39-74: the Declaration visitor, called by the processor on
\* decls[idx]. Assigning decl.value marks the declaration and the root not
\* clean only when the assigned value differs from the present one.
Declaration ==
    /\ pc = "walk"
    /\ idx <= Len(decls)
    /\ walker = "all" \/ ~isClean[idx]
    /\ rewrites < MaxRewrites
    /\ \E decl \in {decls[idx]} : \E assigned \in {NewValue(decl.value)} :
         /\ value' = decl.value
         /\ hexOrRgba' = IF IsColor(decl.value) THEN HexOrRgba(decl.value) ELSE None
         /\ tokenColors' = Registered(tokenColors, decl)
         /\ decls' = [decls EXCEPT ![idx].value = assigned]
         /\ isClean' = [isClean EXCEPT ![idx] = (assigned = decl.value)]
         /\ rootClean' = (rootClean /\ assigned = decl.value)
         /\ rewrites' = IF assigned # decl.value THEN rewrites + 1 ELSE rewrites
    /\ idx' = idx + 1
    /\ UNCHANGED <<walker, pc, created, src, snap, astNode, lookup, reports>>

\* line 116: a processor that walks only what changed passes over a clean
\* declaration without calling the visitor
SkipClean ==
    /\ pc = "walk"
    /\ idx <= Len(decls)
    /\ walker = "dirty" /\ isClean[idx]
    /\ idx' = idx + 1
    /\ UNCHANGED <<tokenColors, walker, pc, created, src, decls, isClean, rootClean,
                   rewrites, value, hexOrRgba, snap, astNode, lookup, reports>>

\* line 116: a pass ended with the root not clean, so another pass begins
NextPass ==
    /\ pc = "walk"
    /\ idx > Len(decls)
    /\ ~rootClean
    /\ rootClean' = TRUE
    /\ idx' = 1
    /\ UNCHANGED <<tokenColors, walker, pc, created, src, decls, isClean, rewrites,
                   value, hexOrRgba, snap, astNode, lookup, reports>>

BuildDone == pc = "walk" /\ idx > Len(decls) /\ rootClean

\* lines 116-138: the processor is done and its result is dropped; create()
\* returns the visitor object
Finish ==
    /\ BuildDone
    /\ pc' = "idle"
    /\ created' = created + 1
    /\ snap' = IF created = 0 THEN tokenColors ELSE snap
    /\ src' = <<>>
    /\ decls' = <<>>
    /\ isClean' = <<>>
    /\ idx' = 1
    /\ value' = None
    /\ hexOrRgba' = None
    /\ UNCHANGED <<tokenColors, walker, rootClean, rewrites, astNode, lookup, reports>>

getTokenAnyValue(token) ==
    IF tokenColors = <<>> THEN Undefined ELSE tokenColors[1].key

\* lines 118-120
getToken(token) ==
    LET hits == {i \in DOMAIN tokenColors : tokenColors[i].val = token}
    IN  IF hits = {} THEN Undefined ELSE tokenColors[Min(hits)].key

\* line 127: a string is truthy unless it is empty
Truthy(x) == x # Undefined /\ x # <<>>

DiagnosticsAnyKey(node) ==
    IF Truthy(getToken(node.value))
    THEN <<[node |-> node, token |-> getToken(node.value), literal |-> node.value]>>
    ELSE <<>>

\* lines 124-135: what one Property visit reports
Diagnostics(node) ==
    IF node.key = "color" /\ Truthy(getToken(node.value))
    THEN <<[node |-> node, token |-> getToken(node.value), literal |-> node.value]>>
    ELSE <<>>

\* upper-case and trailing-blank variants of a literal
Upper(s) ==
    [i \in DOMAIN s |-> IF s[i] = "a" THEN "A" ELSE IF s[i] = "r" THEN "R" ELSE s[i]]

Literals ==
    LET vals == {tokenColors[i].val : i \in DOMAIN tokenColors}
    IN  vals \cup {Upper(v) : v \in vals} \cup {v \o <<" ">> : v \in vals}
             \cup {Undefined, <<"#", "b">>}

\* lines 123-136: the Property visitor of a rule instance
Property ==
    /\ pc = "idle"
    /\ created >= 1
    /\ \E k \in {"color", "background"}, v \in Literals :
         LET node == [key |-> k, value |-> v]
         IN  /\ astNode' = node
             /\ lookup' = IF k = "color" THEN getToken(v) ELSE None
             /\ reports' = Diagnostics(node)
    /\ UNCHANGED <<tokenColors, walker, pc, created, src, decls, isClean, rootClean,
                   idx, rewrites, value, hexOrRgba, snap>>

Walk == Declaration \/ SkipClean \/ NextPass \/ Finish

Next == Create \/ Property \/ Walk

Spec == Init /\ [][Next]_vars

\* one build from an empty registry
NextBuild == CreateOne \/ (created = 0 /\ Create) \/ Walk

SpecBuild == Init /\ [][NextBuild]_vars

\* create() is synchronous: once called, the processor runs to its end
FairBuild == SpecBuild /\ WF_vars(Walk)

\* ------------------------------------------------------------------ claims

Entries == {tokenColors[i] : i \in DOMAIN tokenColors}

\* a declaration that the claims admit to the registry
Admitted(d) == StartsWith(d.prop, DashDash) /\ IsColor(d.value)

\* the end of the first build, which started from an empty registry
FirstBuildDone == BuildDone /\ created = 0

\* C1: when a later rule instance has been set up, every token in the
\* registry is a custom property that its own style sheet declares with a
\* color value; none is left over from an earlier style sheet.
Isolation ==
    (BuildDone /\ created >= 1) =>
        \A e \in Entries : \E j \in DOMAIN src : Admitted(src[j]) /\ src[j].prop = e.key

\* C2: once the first rule instance is set up, the registry stays as that
\* setup left it, through Property visits and later setups alike.
RegistryFrozen == created >= 1 => tokenColors = snap

\* C3: a build from an empty registry yields exactly one entry for every
\* custom property declared with a color value, holding the value of the
\* last such declaration in source order.
LastAdmitted(sheet) ==
    {j \in DOMAIN sheet :
        /\ Admitted(sheet[j])
        /\ \A k \in DOMAIN sheet : (k > j /\ Admitted(sheet[k])) => sheet[k].prop # sheet[j].prop}

BuildMatchesDeclarations ==
    FirstBuildDone =>
        Entries = {[key |-> src[j].prop, val |-> src[j].value] : j \in LastAdmitted(src)}

\* C4: every value in the registry at the end of a build is a value written
\* in the style sheet for that token name, never a rewritten one.
ValuesVerbatim ==
    FirstBuildDone =>
        \A e \in Entries : \E j \in DOMAIN src : src[j].prop = e.key /\ src[j].value = e.val

\* C5: getToken returns a name whose registry value is the literal when
\* there is one, and nothing otherwise.
FindTokenCorrect ==
    astNode.key = "color" =>
        LET names == {e.key : e \in {x \in Entries : x.val = astNode.value}}
        IN  IF names # {} THEN lookup \in names ELSE lookup = Undefined

FindTokenHit ==
    /\ astNode.key = "color"
    /\ Len(tokenColors) >= 2
    /\ lookup \in {e.key : e \in Entries}
    /\ \E e \in Entries : e.val # astNode.value

\* C6 as stated: the span starts at the first "#", or else at the first
\* "rgb(", and ends with the first ")" at or after that.
ClaimedAnchor(v) == IF Includes(v, Hash) THEN IndexOf(v, Hash, 0) ELSE IndexOf(v, RgbParen, 0)

SpanFrom(v, anchor) ==
    LET close == Min({i \in (anchor + 1)..Len(v) : v[i] = ")"})
    IN  [i \in 1..(close - anchor) |-> v[anchor + i]]

ClosedFrom(v, anchor) == \E i \in (anchor + 1)..Len(v) : v[i] = ")"

SpanAnchoredAtRgbParen ==
    (hexOrRgba # None /\ ClaimedAnchor(value) # -1 /\ ClosedFrom(value, ClaimedAnchor(value))) =>
        hexOrRgba = SpanFrom(value, ClaimedAnchor(value))

\* C6 as amended: the span starts at the first "#", or else at the first
\* "rgb" (which is also where an "rgba(" starts), and ends with the first ")"
\* at or after that.
FirstAt(v, pat) ==
    Min({i \in 0..Len(v) : i + Len(pat) <= Len(v)
                           /\ \A k \in 1..Len(pat) : v[i + k] = pat[k]})

AmendedAnchor(v) == IF \E i \in DOMAIN v : v[i] = "#" THEN FirstAt(v, Hash) ELSE FirstAt(v, Rgb)

SpanAnchoredAtRgb ==
    (hexOrRgba # None /\ ClosedFrom(value, AmendedAnchor(value))) =>
        hexOrRgba = SpanFrom(value, AmendedAnchor(value))

SpanInsideValue ==
    /\ hexOrRgba # None
    /\ ~Includes(value, Hash)
    /\ ~Includes(value, RgbParen)
    /\ Len(value) > Len(hexOrRgba)
    /\ hexOrRgba = <<"r", "g", "b", "a", "(", "0", ",", "0", ",", "0", ",", "0", ".", "5", ")">>

\* C7: a declaration whose value has a color marker and no ")" at or after
\* it does not enter the registry, and no slice is taken from it.
MarkerAt(v) ==
    IF Includes(v, Hash) THEN IndexOf(v, Hash, 0)
    ELSE IF Includes(v, RgbParen) THEN IndexOf(v, RgbParen, 0)
    ELSE IndexOf(v, RgbaParen, 0)

Malformed(v) == IsColor(v) /\ ~ClosedFrom(v, MarkerAt(v))

MalformedSkipped ==
    FirstBuildDone =>
        \A j \in DOMAIN src :
            Malformed(src[j].value) =>
                [key |-> src[j].prop, val |-> src[j].value] \notin Entries

\* C8: building leaves every declaration's name and value as it was read.
DeclarationsReadOnly == pc = "walk" => decls = src

====
